---- MODULE Spec2Model ----
(***************************************************************************)
(* Graph based image segmentation (Felzenszwalb / Huttenlocher).           *)
(*                                                                         *)
(* Two layers of the repository are modelled:                              *)
(*   - the pixel graph  (graph/image_graph.rs, image_edge.rs,              *)
(*     image_node.rs): nodes, edges, find_component_at, merge, sort;       *)
(*   - the segmentation engine (segmentation/segmentation.rs) with the     *)
(*     merge predicates and the colour metrics.                            *)
(*                                                                         *)
(* f32 weights are modelled as exact numbers in units of 1/Scale; the      *)
(* thresholds max_w + c / n are exact rationals <<numerator, denominator>>.*)
(* debug_assert!s are modelled as panics (a debug build).                  *)
(***************************************************************************)
EXTENDS Integers, Sequences, FiniteSets, TLC

VARIABLES
    nodes,      \* node array: 0..count-1 -> [label, n, id, max_w]
    k,          \* number of components
    edges,      \* edge array: sequence of [n, m, w]
    hist,       \* the last operation performed, its arguments and result
    pc,         \* position of the caller: "ready", "panic", engine phases
    height,     \* image height
    width,      \* image width
    channels,   \* number of channels of the pixel buffer handed to build_graph
    image,      \* the caller's pixel buffer: index -> <<b, g, r>>
    colors,     \* the colours stored with the nodes by build_graph
    metric,     \* the Distance the engine was constructed with
    c,          \* the threshold constant of the merge predicate
    edge_index, \* loop position of oversegment_graph
    labels,     \* the label buffer returned by derive_labels (<<>>: none)
    builds,     \* number of build_graph calls on this engine instance
    outcomes,   \* build number -> outcome of the Oversegment pass after it
    merged      \* ghost: the edges merged over since the latest build_graph

gvars == <<nodes, k, edges, hist, pc>>

evars ==
    <<height, width, channels, image, colors, metric, c, edge_index, labels,
      builds, outcomes, merged>>

vars == <<gvars, evars>>

-----------------------------------------------------------------------------
(* Bounds of the model. *)

\* Largest node count of a graph explored on the graph layer.
MaxNodes == 4

\* Edge weights (in model units) handed to merge on the graph layer.
Weights == {0, 1}

\* Largest image of the engine: height * width <= MaxPixels.
MaxPixels == 4

\* Largest number of build_graph calls on one engine instance.
MaxBuilds == 2

\* Largest minimum segment size handed to enforce_minimum_segment_size.
MaxMinSize == 2

\* Largest side of a pixel buffer handed to an engine that does not know
\* whether the buffer is valid.
MaxInputSide == 2

\* Largest component size handed to the merge predicates on their own.
MaxSize == 3

\* Longest edge list handed to the sorts on their own.
MaxSortLen == 3

\* The weight 1.0 in model units: weights are multiples of 1 / Scale.
Scale == 100

\* Largest value of an 8 bit colour channel.
ChannelMax == 255

\* 255 * 255 * 3, the divisor of the squared Euclidean distance.
SquaredNorm == 195075

\* Colours <<b, g, r>> of the pixels of the explored images.
Black == <<0, 0, 0>>

White == <<ChannelMax, ChannelMax, ChannelMax>>

Green == <<0, ChannelMax, 0>>

Palette == {Black, White, Green}

\* The metrics the explored engines hold.  On this palette the squared
\* Euclidean distance takes the same values as the Manhattan distance.
Metrics == {"euclidean", "manhattan"}

\* Values of the threshold constant c: 0, 0.5 and 2.0.
Cs == {0, Scale \div 2, 2 * Scale}

-----------------------------------------------------------------------------
(* Small helpers. *)

Max(a, b) == IF a >= b THEN a ELSE b

Min(a, b) == IF a <= b THEN a ELSE b

\* The operation record of a state in which nothing has been called yet.
NoOp ==
    [op |-> "none", a |-> 0, b |-> 0, w |-> 0, ret |-> 0, rep |-> 0]

\* 1 when the call being made repeats the previous call: same operation, same
\* first argument, nothing in between.
Repeated(op, a) == IF hist.op = op /\ hist.a = a THEN 1 ELSE 0

-----------------------------------------------------------------------------
(* Nodes and edges. *)

\* #[derive(Default)] on ImageNode: every field is zero.
DefaultNode == [label |-> 0, n |-> 0, id |-> 0, max_w |-> 0]

\* Nodes::allocated: count default nodes.
Allocated(count) == [i \in 0 .. count - 1 |-> DefaultNode]

\* build_graph's node initialisation: label = id = index, n = 1.
InitNode(node_index) ==
    [DefaultNode EXCEPT !.label = node_index, !.id = node_index, !.n = 1]

BuiltNodes(count) == [i \in 0 .. count - 1 |-> InitNode(i)]

ImageEdge(n, m, w) == [n |-> n, m |-> m, w |-> w]

NumNodes(ns) == Cardinality(DOMAIN ns)

-----------------------------------------------------------------------------
(* Nodes::find_component_at.                                               *)
(* The result is [st, nodes, ret]: st = "ok" when the call returns,        *)
(* "panic" when an unwrap or a debug assertion fails, "diverge" when the   *)
(* while loop never ends (a cycle of labels that avoids a root).           *)

\* The while loop: follow labels from l until the node read last is a root.
\* A borrow of the queried slot (mutably borrowed) or of a slot outside the
\* array makes unwrap panic.
RECURSIVE FindWalk(_, _, _, _, _)
FindWalk(ns, index, l, id, fuel) ==
    IF l = id THEN [st |-> "ok", l |-> l]
    ELSE IF l = index \/ l \notin DOMAIN ns THEN [st |-> "panic", l |-> l]
    ELSE IF fuel = 0 THEN [st |-> "diverge", l |-> l]
    ELSE FindWalk(ns, index, ns[l].label, ns[l].id, fuel - 1)

\* Mutant: the queried node is pointed at its parent's parent, not at the root.
SaveGrandparent(ns, index, s) ==
    [ns EXCEPT ![index].label = ns[ns[index].label].label]

\* Mutant: the parent of the queried node is pointed at the root as well.
SaveLatestComponentAndParent(ns, index, s) ==
    [[ns EXCEPT ![ns[index].label].label = s.id] EXCEPT ![index].label = s.id]

\* The write at the end of find_component_at: only the queried node's label.
SaveLatestComponent(ns, index, s) == [ns EXCEPT ![index].label = s.id]

find_component_at(ns, index) ==
    IF index \notin DOMAIN ns \/ ns[index].id # index
    THEN [st |-> "panic", nodes |-> ns, ret |-> index]
    ELSE IF ns[index].label = ns[index].id
    THEN [st |-> "ok", nodes |-> ns, ret |-> index]
    ELSE LET walk == FindWalk(ns, index, ns[index].label, ns[index].id,
                              NumNodes(ns))
         IN  IF walk.st # "ok"
             THEN [st |-> walk.st, nodes |-> ns, ret |-> index]
             ELSE IF walk.l = index \/ ns[walk.l].label # ns[walk.l].id
             THEN [st |-> "panic", nodes |-> ns, ret |-> index]
             ELSE [st |-> "ok",
                   nodes |-> SaveLatestComponent(ns, index, ns[walk.l]),
                   ret |-> walk.l]

-----------------------------------------------------------------------------
(* ImageGraph::merge.  s_n and s_m are the cells at indices a and b.       *)

\* Mutant: the edge weight is left out of the maximum.
MergedLhsNoEdge(lhs, rhs, e) ==
    [lhs EXCEPT !.n = lhs.n + rhs.n, !.max_w = Max(lhs.max_w, rhs.max_w)]

\* Mutant: lhs is pointed at rhs as well, so the two point at each other.
MergedLhsPointsAtRhs(lhs, rhs, e) ==
    [lhs EXCEPT !.label = rhs.id,
                !.n = lhs.n + rhs.n,
                !.max_w = Max(Max(lhs.max_w, rhs.max_w), e.w)]

\* lhs after the merge: size and maximum weight are accumulated.
MergedLhs(lhs, rhs, e) ==
    [lhs EXCEPT !.n = lhs.n + rhs.n,
                !.max_w = Max(Max(lhs.max_w, rhs.max_w), e.w)]

\* rhs after the merge: it points at lhs.
MergedRhs(lhs, rhs) == [rhs EXCEPT !.label = lhs.id]

\* The component count after a merge.
MergedCount(kk) == kk - 1

merge(ns, kk, a, b, e) ==
    LET lhs == ns[a]
        rhs == ns[b]
    IN  IF lhs.id = rhs.id \/ lhs.label # lhs.id \/ kk = 0
        THEN [st |-> "panic", nodes |-> ns, k |-> kk]
        ELSE [st |-> "ok",
              \* s_n.set(lhs) then s_m.set(rhs)
              nodes |-> [[ns EXCEPT ![a] = MergedLhs(lhs, rhs, e)]
                             EXCEPT ![b] = MergedRhs(lhs, rhs)],
              k |-> MergedCount(kk)]

-----------------------------------------------------------------------------
(* The pixel graph driven by a caller that keeps merge's contract: both    *)
(* arguments are current roots and they differ.                            *)

IsRoot(ns, i) == ns[i].label = ns[i].id

Roots(ns) == {i \in DOMAIN ns : IsRoot(ns, i)}

\* The engine's variables on the graph layer, where no engine exists.
NoEngine ==
    /\ height = 0
    /\ width = 0
    /\ channels = 0
    /\ image = <<>>
    /\ colors = <<>>
    /\ metric = "none"
    /\ c = 0
    /\ edge_index = 0
    /\ labels = <<>>
    /\ builds = 0
    /\ outcomes = <<>>
    /\ merged = {}

\* A graph whose nodes were initialised as build_graph initialises them.
InitGraph ==
    /\ \E count \in 1 .. MaxNodes :
          /\ nodes = BuiltNodes(count)
          /\ k = count
    /\ edges = <<>>
    /\ hist = NoOp
    /\ pc = "ready"
    /\ NoEngine

\* ImageGraph::add_edges: the edges of a row of pixels, appended.
RowEdges(count) ==
    [i \in 1 .. count - 1 |-> ImageEdge(i - 1, i, (count - i) % 2)]

AddEdges ==
    /\ pc = "ready"
    /\ edges = <<>>
    /\ NumNodes(nodes) > 1
    /\ edges' = edges \o RowEdges(NumNodes(nodes))
    /\ hist' = [NoOp EXCEPT !.op = "add_edges"]
    /\ UNCHANGED <<nodes, k, pc>>

FindComponentAt ==
    /\ pc = "ready"
    /\ \E index \in DOMAIN nodes :
          LET r == find_component_at(nodes, index)
          IN  /\ nodes' = r.nodes
              /\ pc' = IF r.st = "ok" THEN "ready" ELSE r.st
              /\ hist' = [NoOp EXCEPT !.op = "find", !.a = index,
                                      !.ret = r.ret,
                                      !.rep = Repeated("find", index)]
    /\ UNCHANGED <<k, edges>>

Merge ==
    /\ pc = "ready"
    /\ \E a \in Roots(nodes), b \in Roots(nodes), w \in Weights :
          /\ a # b
          /\ LET r == merge(nodes, k, a, b, ImageEdge(a, b, w))
             IN  /\ nodes' = r.nodes
                 /\ k' = r.k
                 /\ pc' = IF r.st = "ok" THEN "ready" ELSE r.st
                 /\ hist' = [NoOp EXCEPT !.op = "merge", !.a = a, !.b = b,
                                         !.w = w]
    /\ UNCHANGED edges

GraphAddEdges == AddEdges /\ UNCHANGED evars

GraphFindComponentAt == FindComponentAt /\ UNCHANGED evars

GraphMerge == Merge /\ UNCHANGED evars

Next == GraphAddEdges \/ GraphFindComponentAt \/ GraphMerge

Spec == InitGraph /\ [][Next]_vars

-----------------------------------------------------------------------------
(* Ghost definitions of the claims: the component a node belongs to.       *)

\* Following labels from i reaches a root within fuel hops.
RECURSIVE ReachesRoot(_, _, _)
ReachesRoot(ns, i, fuel) ==
    IF i \notin DOMAIN ns THEN FALSE
    ELSE IF ns[i].label = ns[i].id THEN TRUE
    ELSE IF fuel = 0 THEN FALSE
    ELSE ReachesRoot(ns, ns[i].label, fuel - 1)

\* The root reached from i (i itself when the walk does not end).
RECURSIVE RootOf(_, _, _)
RootOf(ns, i, fuel) ==
    IF i \notin DOMAIN ns \/ fuel = 0 THEN i
    ELSE IF ns[i].label = ns[i].id THEN i
    ELSE RootOf(ns, ns[i].label, fuel - 1)

Component(ns, i) == RootOf(ns, i, NumNodes(ns))

\* Number of hops from i to its root.
RECURSIVE Depth(_, _, _)
Depth(ns, i, fuel) ==
    IF i \notin DOMAIN ns \/ fuel = 0 THEN 0
    ELSE IF ns[i].label = ns[i].id THEN 0
    ELSE 1 + Depth(ns, ns[i].label, fuel - 1)

Largest(S) == CHOOSE x \in S : \A y \in S : x >= y

-----------------------------------------------------------------------------
(* The colour metrics (Distance).  A colour is <<b, g, r>>.                *)

Abs(x) == IF x < 0 THEN 0 - x ELSE x

\* Largest r in lo .. hi with r * r <= x.
RECURSIVE ISqrtIn(_, _, _)
ISqrtIn(x, lo, hi) ==
    IF lo >= hi THEN lo
    ELSE LET mid == (lo + hi + 1) \div 2
         IN  IF mid * mid <= x THEN ISqrtIn(x, mid, hi)
             ELSE ISqrtIn(x, lo, mid - 1)

\* Mutant: the blue channel is left out.
SquaredDifferenceNoBlue(n, m) ==
    (n[3] - m[3]) * (n[3] - m[3]) + (n[2] - m[2]) * (n[2] - m[2])

\* dr * dr + dg * dg + db * db
SquaredDifference(n, m) ==
    (n[3] - m[3]) * (n[3] - m[3]) + (n[2] - m[2]) * (n[2] - m[2])
        + (n[1] - m[1]) * (n[1] - m[1])

\* Mutant: the distance is not normalised.
EuclideanUnnormalised(n, m) ==
    ISqrtIn(SquaredDifference(n, m), 0, 2 * ChannelMax)

\* sqrt(dr^2 + dg^2 + db^2) / sqrt(255^2 * 3), rounded down to 1 / Scale.
EuclideanRGB_distance(n, m) ==
    ISqrtIn((SquaredDifference(n, m) * Scale * Scale) \div SquaredNorm, 0, Scale)

\* (dr^2 + dg^2 + db^2) / (255^2 * 3), rounded down to 1 / Scale.
SquaredEuclideanRGB_distance(n, m) ==
    (SquaredDifference(n, m) * Scale) \div SquaredNorm

\* (|dr| + |dg| + |db|) / (255 * 3), rounded down to 1 / Scale.
ManhattanRGB_distance(n, m) ==
    ((Abs(n[3] - m[3]) + Abs(n[2] - m[2]) + Abs(n[1] - m[1])) * Scale)
        \div (ChannelMax * 3)

\* Distance::distance of the metric the engine holds.
distance(mt, n, m) ==
    CASE mt = "euclidean" -> EuclideanRGB_distance(n, m)
      [] mt = "squared_euclidean" -> SquaredEuclideanRGB_distance(n, m)
      [] mt = "manhattan" -> ManhattanRGB_distance(n, m)

-----------------------------------------------------------------------------
(* The merge predicates.  A threshold max_w + c / n is the exact rational  *)
(* <<max_w * n + c, n>>; sizes are at least 1.                             *)

Threshold(cc, node) == <<node.max_w * node.n + cc, node.n>>

RatLess(x, y) == x[1] * y[2] < y[1] * x[2]

\* f32::min
RatMin(x, y) == IF RatLess(y, x) THEN y ELSE x

\* Mutant: the comparison is not strict.
NotAboveThreshold(w, threshold) == ~RatLess(threshold, <<w, 1>>)

\* e.w < threshold
BelowThreshold(w, threshold) == RatLess(<<w, 1>>, threshold)

\* Mutant: only the first component's threshold is consulted.
MagicFirstOnly(cc, s_n, s_m, edge) ==
    BelowThreshold(edge.w, Threshold(cc, s_n))

\* Mutant: the engine's predicate also accepts a weight equal to the threshold.
MagicNotStrict(cc, s_n, s_m, edge) ==
    NotAboveThreshold(edge.w, RatMin(Threshold(cc, s_n), Threshold(cc, s_m)))

\* MagicThreshold::magic, the predicate the engine of segmentation.rs calls.
MagicThreshold_magic(cc, s_n, s_m, edge) ==
    BelowThreshold(edge.w, RatMin(Threshold(cc, s_n), Threshold(cc, s_m)))

\* NodeMergingThreshold::should_merge: [st, ret]; the debug assertion fails
\* when both nodes have the same id.
should_merge(cc, s_n, s_m, edge) ==
    IF s_m.id = s_n.id THEN [st |-> "panic", ret |-> FALSE]
    ELSE LET threshold_n == Threshold(cc, s_n)
             threshold_m == Threshold(cc, s_m)
             threshold == RatMin(threshold_n, threshold_m)
         IN  [st |-> "ok", ret |-> BelowThreshold(edge.w, threshold)]

-----------------------------------------------------------------------------
(* The engine of segmentation/segmentation.rs: Segmentation<D, M>.         *)

\* Stable insertion of edge x into a list sorted by weight: behind every edge
\* that is not heavier.
RECURSIVE InsertByWeight(_, _)
InsertByWeight(sorted, x) ==
    IF sorted = <<>> THEN <<x>>
    ELSE IF sorted[Len(sorted)].w <= x.w THEN Append(sorted, x)
    ELSE Append(InsertByWeight(SubSeq(sorted, 1, Len(sorted) - 1), x),
                sorted[Len(sorted)])

RECURSIVE SortByWeightUpTo(_, _)
SortByWeightUpTo(es, count) ==
    IF count = 0 THEN <<>>
    ELSE InsertByWeight(SortByWeightUpTo(es, count - 1), es[count])

\* Segmentation::sort_edges: a stable sort that compares the weights only.
Segmentation_sort_edges(es) == SortByWeightUpTo(es, Len(es))

\* Mutant: only the edge to the pixel below is created.
EdgesOfPixelBelowOnly(h, w, cols, mt, node_index) ==
    LET i == node_index \div w
        j == node_index % w
        below == w * (i + 1) + j
    IN  IF i < h - 1
        THEN <<ImageEdge(node_index, below,
                         distance(mt, cols[node_index], cols[below]))>>
        ELSE <<>>

\* The edges build_graph creates for one pixel: first the one to the pixel
\* below (i < height - 1), then the one to the pixel to the right.
EdgesOfPixel(h, w, cols, mt, node_index) ==
    LET i == node_index \div w
        j == node_index % w
        below == w * (i + 1) + j
        right == w * i + (j + 1)
    IN  (IF i < h - 1
         THEN <<ImageEdge(node_index, below,
                          distance(mt, cols[node_index], cols[below]))>>
         ELSE <<>>)
        \o (IF j < w - 1
            THEN <<ImageEdge(node_index, right,
                             distance(mt, cols[node_index], cols[right]))>>
            ELSE <<>>)

\* The edges of the pixels 0 .. count - 1, in the order of the two loops.
RECURSIVE BuildEdges(_, _, _, _, _)
BuildEdges(h, w, cols, mt, count) ==
    IF count = 0 THEN <<>>
    ELSE BuildEdges(h, w, cols, mt, count - 1)
             \o EdgesOfPixel(h, w, cols, mt, count - 1)

\* The while loop of Segmentation::find_node_component_at: it reads the id of
\* the node it visits into both l and id.
RECURSIVE EngineFindWalk(_, _, _, _)
EngineFindWalk(ns, l, id, fuel) ==
    IF l = id THEN [st |-> "ok", l |-> l]
    ELSE IF l \notin DOMAIN ns THEN [st |-> "panic", l |-> l]
    ELSE IF fuel = 0 THEN [st |-> "diverge", l |-> l]
    ELSE EngineFindWalk(ns, ns[l].id, ns[l].id, fuel - 1)

\* Segmentation::find_node_component_at: [st, nodes, ret], ret the index of
\* the node returned.
Segmentation_find_node_component_at(ns, index) ==
    IF index \notin DOMAIN ns
    THEN [st |-> "panic", nodes |-> ns, ret |-> index]
    ELSE LET walk == EngineFindWalk(ns, ns[index].label, ns[index].id,
                                    NumNodes(ns))
         IN  IF walk.st # "ok"
             THEN [st |-> walk.st, nodes |-> ns, ret |-> index]
             ELSE IF walk.l \notin DOMAIN ns
                     \/ ns[walk.l].label # ns[walk.l].id
             THEN [st |-> "panic", nodes |-> ns, ret |-> index]
             ELSE [st |-> "ok",
                   nodes |-> [ns EXCEPT ![index].label = ns[walk.l].id],
                   ret |-> walk.l]

\* Mutant: the component count is left as it is.
EngineMergedCountKept(kk) == kk

\* Mutant: the component count grows.
EngineMergedCountUp(kk) == kk + 1

\* self.k -= 1
EngineMergedCount(kk) == kk - 1

\* Mutant: the weight of the merged edge is left out of the maximum.
Segmentation_merge_ignores_edge(ns, kk, a, b, edge) ==
    IF kk = 0 THEN [st |-> "panic", nodes |-> ns, k |-> kk]
    ELSE [st |-> "ok",
          nodes |-> [ns EXCEPT
                       ![b].label = ns[a].id,
                       ![a].n = ns[a].n + ns[b].n,
                       ![a].max_w = Max(ns[a].max_w, ns[b].max_w)],
          k |-> EngineMergedCount(kk)]

\* Mutant: the size of the absorbed component is not added.
Segmentation_merge_keeps_size(ns, kk, a, b, edge) ==
    IF kk = 0 THEN [st |-> "panic", nodes |-> ns, k |-> kk]
    ELSE [st |-> "ok",
          nodes |-> [ns EXCEPT
                       ![b].label = ns[a].id,
                       ![a].max_w = Max(Max(ns[a].max_w, ns[b].max_w), edge.w)],
          k |-> EngineMergedCount(kk)]

\* Segmentation::merge on the nodes at indices a and b.
Segmentation_merge(ns, kk, a, b, edge) ==
    IF kk = 0 THEN [st |-> "panic", nodes |-> ns, k |-> kk]
    ELSE [st |-> "ok",
          nodes |-> [ns EXCEPT
                       ![b].label = ns[a].id,
                       ![a].n = ns[a].n + ns[b].n,
                       ![a].max_w = Max(Max(ns[a].max_w, ns[b].max_w), edge.w)],
          k |-> EngineMergedCount(kk)]

\* One iteration of the loop of oversegment_graph:
\* [st, nodes, k, a, b, merged].
OversegmentEdge(ns, kk, cc, edge) ==
    LET stop(ms) ==
            [st |-> "panic", nodes |-> ms, k |-> kk, a |-> 0, b |-> 0,
             merged |-> 0]
    IN  IF edge.n \notin DOMAIN ns \/ edge.m \notin DOMAIN ns THEN stop(ns)
        ELSE LET s_n == Segmentation_find_node_component_at(ns, edge.n)
             IN  IF s_n.st # "ok" THEN stop(s_n.nodes)
                 ELSE LET s_m == Segmentation_find_node_component_at(
                                     s_n.nodes, edge.m)
                      IN  IF s_m.st # "ok" THEN stop(s_m.nodes)
                          ELSE IF s_m.nodes[s_m.ret].id # s_m.nodes[s_n.ret].id
                                  /\ MagicThreshold_magic(cc,
                                         s_m.nodes[s_n.ret],
                                         s_m.nodes[s_m.ret], edge)
                          THEN LET r == Segmentation_merge(s_m.nodes, kk,
                                            s_n.ret, s_m.ret, edge)
                               IN  [st |-> r.st, nodes |-> r.nodes, k |-> r.k,
                                    a |-> s_n.ret, b |-> s_m.ret, merged |-> 1]
                          ELSE [st |-> "ok", nodes |-> s_m.nodes, k |-> kk,
                                a |-> s_n.ret, b |-> s_m.ret, merged |-> 0]

Pixels(h, w) == 0 .. h * w - 1

\* Segmentation::new, and the image, metric and c the caller works with.
InitEngine ==
    /\ \E h \in 1 .. MaxPixels, w \in 1 .. MaxPixels :
          /\ h * w <= MaxPixels
          /\ height = h
          /\ width = w
          /\ image \in [Pixels(h, w) -> Palette]
    /\ channels = 3
    /\ metric \in Metrics
    /\ c \in Cs
    /\ nodes = <<>>
    /\ colors = <<>>
    /\ k = 0
    /\ edges = <<>>
    /\ pc = "new"
    /\ hist = NoOp
    /\ edge_index = 0
    /\ labels = <<>>
    /\ builds = 0
    /\ outcomes = <<>>
    /\ merged = {}

\* The caller is between two calls on an engine that has not panicked.
Idle == pc \in {"new", "built", "oversegmented"}

\* What a finished (or aborted) Oversegment pass leaves behind: the phase, the
\* component count and the root of every pixel.
Outcome(p, ns, kk) ==
    [pc |-> p, k |-> kk, comp |-> [i \in DOMAIN ns |-> RootOf(ns, i, NumNodes(ns))]]

\* The outcome of the first Oversegment pass after each build is recorded.
Recorded(p, ns, kk) ==
    IF p \in {"oversegmented", "panic"} /\ builds > 0
           /\ builds \notin DOMAIN outcomes
    THEN [b \in DOMAIN outcomes \cup {builds} |->
             IF b = builds THEN Outcome(p, ns, kk) ELSE outcomes[b]]
    ELSE outcomes

\* Segmentation::build_graph
BuildGraph ==
    /\ Idle
    /\ builds < MaxBuilds
    /\ LET node_count == height * width
           cols == [i \in Pixels(height, width) |-> image[i]]
       IN  /\ k' = node_count
           /\ IF node_count > 0 /\ channels # 3
              \* at_2d::<Vec3b> of the first pixel is an Err: unwrap panics,
              \* with k and the node array already replaced
              THEN /\ nodes' = Allocated(node_count)
                   /\ colors' = [i \in Pixels(height, width) |-> Black]
                   /\ edges' = edges
                   /\ pc' = "panic"
              ELSE /\ nodes' = BuiltNodes(node_count)
                   /\ colors' = cols
                   \* add_edge pushes: the edges of an earlier build stay
                   /\ edges' = edges \o BuildEdges(height, width, cols,
                                                   metric, node_count)
                   /\ pc' = "built"
    /\ builds' = builds + 1
    /\ outcomes' = outcomes
    /\ merged' = {}
    /\ edge_index' = 0
    /\ hist' = [NoOp EXCEPT !.op = "build_graph"]
    /\ UNCHANGED <<height, width, channels, image, metric, c, labels>>

\* Mutant: only the node array is asserted to be non-empty.
NoNodes(ns, es) == NumNodes(ns) = 0

\* The two assertions at the head of oversegment_graph: one of them fails.
NothingToSegment(ns, es) == NumNodes(ns) = 0 \/ Len(es) = 0

\* Segmentation::oversegment_graph up to its loop: the assertions and the
\* sort; a loop over no edges returns at once.
OversegmentBegin ==
    /\ Idle
    /\ IF NothingToSegment(nodes, edges)
       THEN /\ pc' = "panic"
            /\ edges' = edges
       ELSE /\ pc' = IF Len(edges) = 0 THEN "oversegmented" ELSE "overseg"
            /\ edges' = Segmentation_sort_edges(edges)
    /\ edge_index' = 0
    /\ hist' = [NoOp EXCEPT !.op = "oversegment_graph"]
    /\ outcomes' = Recorded(pc', nodes, k)
    /\ UNCHANGED <<nodes, k, height, width, channels, image, colors, metric,
                   c, labels, builds, merged>>

\* One iteration of the loop of oversegment_graph; the last one returns.
OversegmentStep ==
    /\ pc = "overseg"
    /\ LET edge == edges[(edge_index % Len(edges)) + 1]
           r == OversegmentEdge(nodes, k, c, edge)
       IN  /\ nodes' = r.nodes
           /\ k' = r.k
           /\ pc' = IF r.st # "ok" THEN "panic"
                    ELSE IF edge_index + 1 = Len(edges) THEN "oversegmented"
                    ELSE "overseg"
           /\ hist' = [NoOp EXCEPT !.op = "oversegment_step", !.a = r.a,
                                   !.b = r.b, !.w = edge.w, !.ret = r.merged]
           /\ outcomes' = Recorded(pc', r.nodes, r.k)
           /\ merged' = IF r.st = "ok" /\ r.merged = 1
                        THEN merged \cup {edge}
                        ELSE merged
    /\ edge_index' = edge_index + 1
    /\ UNCHANGED <<edges, height, width, channels, image, colors, metric, c,
                   labels, builds>>

\* Segmentation::enforce_minimum_segment_size: unimplemented!() panics.
EnforceMinimumSegmentSize ==
    /\ Idle
    /\ \E m \in 1 .. MaxMinSize :
          hist' = [NoOp EXCEPT !.op = "enforce_minimum_segment_size", !.a = m]
    /\ pc' = "panic"
    /\ UNCHANGED <<nodes, k, edges, height, width, channels, image, colors,
                   metric, c, edge_index, labels, builds, outcomes,
                   merged>>

\* Segmentation::derive_labels: unimplemented!() panics, no buffer is returned.
DeriveLabels ==
    /\ Idle
    /\ hist' = [NoOp EXCEPT !.op = "derive_labels"]
    /\ pc' = "panic"
    /\ UNCHANGED <<nodes, k, edges, height, width, channels, image, colors,
                   metric, c, edge_index, labels, builds, outcomes,
                   merged>>

NextEngine ==
    \/ BuildGraph
    \/ OversegmentBegin
    \/ OversegmentStep
    \/ EnforceMinimumSegmentSize
    \/ DeriveLabels

SpecEngine == InitEngine /\ [][NextEngine]_vars

-----------------------------------------------------------------------------
(* Claims on the pixel graph (specification Spec).                         *)

\* C1: from a freshly built graph, after any sequence of find_component_at
\* calls and merges of two distinct roots, following the labels from any node
\* reaches a root in finitely many steps: the labels form no cycle but the
\* self-reference of a root.
C1_LabelsReachRoot ==
    \A i \in DOMAIN nodes : ReachesRoot(nodes, i, NumNodes(nodes))

\* C1 witness: merges and a find have left a chain of two hops.
C1_Witness ==
    /\ hist.op = "find"
    /\ \E i \in DOMAIN nodes : Depth(nodes, i, NumNodes(nodes)) >= 2

\* C5: a find_component_at call that repeats the previous call (same index,
\* no merge in between) returns the same id and changes nothing.
C5_FindIdempotent ==
    [][(/\ hist.op = "find"
        /\ hist'.op = "find"
        /\ hist'.a = hist.a)
       => (/\ hist'.ret = hist.ret
           /\ nodes' = nodes
           /\ k' = k
           /\ edges' = edges
           /\ pc' = pc)]_vars

\* C5 witness: the second of two calls in a row on a node that is no root,
\* while a chain of two hops exists elsewhere.
C5_Witness ==
    /\ hist.op = "find"
    /\ hist.rep = 1
    /\ hist.ret # hist.a
    /\ \E i \in DOMAIN nodes : Depth(nodes, i, NumNodes(nodes)) >= 2

C22_FindFrame ==
    [][hist'.op = "find"
       => /\ hist'.ret = Component(nodes, hist'.a)
          /\ nodes'[hist'.a] = [nodes[hist'.a] EXCEPT !.label = hist'.ret]
          /\ DOMAIN nodes' = DOMAIN nodes
          /\ \A i \in DOMAIN nodes \ {hist'.a} : nodes'[i] = nodes[i]
          /\ \A i \in DOMAIN nodes :
                Component(nodes', i) = Component(nodes, i)
          /\ k' = k
          /\ edges' = edges
          /\ pc' = pc]_vars

\* C22 witness: a first find on a node that is no root has pointed it at its
\* root, while another node is still two hops away from its root.
C22_Witness ==
    /\ hist.op = "find"
    /\ hist.rep = 0
    /\ hist.ret # hist.a
    /\ nodes[hist.a].label = hist.ret
    /\ nodes[hist.a].n >= 2
    /\ \E i \in DOMAIN nodes : Depth(nodes, i, NumNodes(nodes)) >= 2

-----------------------------------------------------------------------------
(* Claims on the engine (specification SpecEngine).                        *)

\* Pairs of 4-adjacent pixels of the image.
AdjacentPixels ==
    {pq \in Pixels(height, width) \X Pixels(height, width) :
        \/ pq[2] = pq[1] + width
        \/ pq[2] = pq[1] + 1 /\ pq[1] \div width = pq[2] \div width}

\* The Oversegment pass that followed the latest build has completed.
Oversegmented ==
    /\ builds \in DOMAIN outcomes
    /\ outcomes[builds].pc = "oversegmented"

\* The indices of the edges that satisfy P.
EdgesWhere(P(_)) == {i \in 1 .. Len(edges) : P(edges[i])}

\* C2: after Derive labels every value of the label buffer is the id of a
\* current root, and the number of distinct values is num_components.
C2_LabelsAreRoots ==
    (hist.op = "derive_labels" /\ Oversegmented)
        => /\ \A p \in 1 .. Len(labels) : labels[p] \in Roots(nodes)
           /\ Cardinality({labels[p] : p \in 1 .. Len(labels)}) = k

\* C3: after Enforce with minimum m, any two 4-adjacent pixels in different
\* components both lie in components of size >= m, unless these are the only
\* two components left.
C3_EnforcedMinimum ==
    (hist.op = "enforce_minimum_segment_size" /\ Oversegmented)
        => \A pq \in AdjacentPixels :
              LET a == Component(nodes, pq[1])
                  b == Component(nodes, pq[2])
              IN  a # b => \/ nodes[a].n >= hist.a /\ nodes[b].n >= hist.a
                           \/ k = 2

\* C4: num_components is height * width after Build, every step of the
\* Oversegment pass leaves it unchanged or lowers it by exactly 1, and Enforce
\* and Derive never raise it.
C4_ComponentsNeverIncrease ==
    [][/\ hist'.op = "build_graph" => k' = height * width
       /\ hist'.op \in {"oversegment_graph", "oversegment_step"}
             => (k' = k \/ k' = k - 1)
       /\ hist'.op = "enforce_minimum_segment_size" => k' <= k
       /\ hist'.op = "derive_labels" => k' <= k]_vars

\* C4 witness: an Oversegment pass has completed and has merged some but not
\* all components.
C4_Witness ==
    /\ pc = "oversegmented"
    /\ hist.op = "oversegment_step"
    /\ 1 < k
    /\ k < height * width - 1

\* C9: two runs on the same image with the same metric and c leave the same
\* number of components and the same component for every pixel, also when the
\* second run uses the same engine instance again.
C9_Deterministic ==
    \A b1 \in DOMAIN outcomes, b2 \in DOMAIN outcomes :
        outcomes[b1] = outcomes[b2]

BlackBlackBlackWhite == (0 :> Black) @@ (1 :> Black) @@ (2 :> Black) @@ (3 :> White)

\* The graph of the 2 x 2 image [[black, black], [black, white]] has just been
\* built on a fresh engine with the Euclidean metric.
BuiltBlackBlackBlackWhite ==
    /\ pc = "built"
    /\ builds = 1
    /\ height = 2
    /\ width = 2
    /\ metric = "euclidean"
    /\ image = BlackBlackBlackWhite

IsHorizontal(x) == x.m = x.n + 1

IsVertical(x) == x.m = x.n + width

IsOne(x) == x.w = Scale

IsZero(x) == x.w = 0

\* C10 as stated: 4 nodes, 4 edges (two horizontal, two vertical), exactly
\* one edge of weight 1.0 and three of weight 0.0.
C10_OneHeavyEdge ==
    BuiltBlackBlackBlackWhite
        => /\ NumNodes(nodes) = 4
           /\ Len(edges) = 4
           /\ Cardinality(EdgesWhere(IsHorizontal)) = 2
           /\ Cardinality(EdgesWhere(IsVertical)) = 2
           /\ Cardinality(EdgesWhere(IsOne)) = 1
           /\ Cardinality(EdgesWhere(IsZero)) = 3

\* C10 amended: 4 nodes, 4 edges (two horizontal, two vertical); the two
\* edges at the white pixel have weight 1.0 and the other two weight 0.0.
C10_TwoHeavyEdges ==
    BuiltBlackBlackBlackWhite
        => /\ NumNodes(nodes) = 4
           /\ Len(edges) = 4
           /\ Cardinality(EdgesWhere(IsHorizontal)) = 2
           /\ Cardinality(EdgesWhere(IsVertical)) = 2
           /\ EdgesWhere(IsOne) = {i \in 1 .. Len(edges) : edges[i].m = 3}
           /\ Cardinality(EdgesWhere(IsOne)) = 2
           /\ Cardinality(EdgesWhere(IsZero)) = 2

\* C10 witness: that graph has been built.
C10_Witness == BuiltBlackBlackBlackWhite /\ hist.op = "build_graph"

\* The first Oversegment pass on the 2 x 2 image [[black, black], [black,
\* white]] with the Euclidean metric and c = 0 has completed.
OversegmentedBlackBlackBlackWhite ==
    /\ pc = "oversegmented"
    /\ hist.op = "oversegment_step"
    /\ builds = 1
    /\ height = 2
    /\ width = 2
    /\ metric = "euclidean"
    /\ image = BlackBlackBlackWhite
    /\ c = 0

\* C11 as stated: on that image with c = 0 Oversegment merges the three black
\* pixels into one component of size 3 and keeps the white pixel apart, so
\* that two components (two distinct labels) remain.
C11_ThreeBlackMerged ==
    OversegmentedBlackBlackBlackWhite
        => /\ k = 2
           /\ Component(nodes, 0) = Component(nodes, 1)
           /\ Component(nodes, 0) = Component(nodes, 2)
           /\ Component(nodes, 3) # Component(nodes, 0)
           /\ nodes[Component(nodes, 0)].n = 3

\* C11 amended: on that image with c = 0 Oversegment merges nothing, since no
\* weight, 0.0 included, is strictly below the threshold 0 + 0 / 1: all four
\* pixels stay roots of size 1 and num_components stays 4.
C11_NothingMerged ==
    OversegmentedBlackBlackBlackWhite
        => /\ k = 4
           /\ \A i \in DOMAIN nodes :
                 /\ IsRoot(nodes, i)
                 /\ nodes[i].n = 1
                 /\ nodes[i].max_w = 0

\* C11 witness: that pass has completed, its last edge being a black-white
\* edge that was not merged.
C11_Witness ==
    /\ OversegmentedBlackBlackBlackWhite
    /\ hist.w = Scale
    /\ hist.ret = 0

\* The image is a single row of pixels of one colour.
UniformRow ==
    /\ height = 1
    /\ \A p \in Pixels(height, width) : image[p] = image[0]

\* C12: on a 1 x N image of one colour with c > 0, for every N >= 1, the
\* Oversegment pass after Build ends with num_components = 1 and every pixel
\* resolving to the same root.
C12_UniformRowMerges ==
    (UniformRow /\ c > 0 /\ 1 \in DOMAIN outcomes)
        => /\ outcomes[1].pc = "oversegmented"
           /\ outcomes[1].k = 1
           /\ \A p \in Pixels(height, width) :
                 outcomes[1].comp[p] = outcomes[1].comp[0]

\* The number of edges in es from pixel p to pixel q.
EdgeCount(es, p, q) ==
    Cardinality({i \in 1 .. Len(es) : es[i].n = p /\ es[i].m = q})

\* C14: Build creates height * width nodes, node idx with id = label = idx
\* and size 1, and creates exactly one edge for each pixel with a right
\* neighbour and one for each pixel with a bottom neighbour,
\* height * (width - 1) + (height - 1) * width in all, each joining two
\* 4-adjacent pixels, with both endpoints in range and n # m.
C14_BuildCreatesGrid ==
    [][hist'.op = "build_graph"
       => LET created == SubSeq(edges', Len(edges) + 1, Len(edges'))
              P == Pixels(height, width)
          IN  /\ DOMAIN nodes' = P
              /\ \A idx \in P : /\ nodes'[idx].id = idx
                                /\ nodes'[idx].label = idx
                                /\ nodes'[idx].n = 1
              /\ SubSeq(edges', 1, Len(edges)) = edges
              /\ Len(created)
                    = height * (width - 1) + (height - 1) * width
              /\ \A idx \in P :
                    /\ idx % width < width - 1
                          => EdgeCount(created, idx, idx + 1) = 1
                    /\ idx \div width < height - 1
                          => EdgeCount(created, idx, idx + width) = 1
              /\ \A i \in 1 .. Len(created) :
                    /\ created[i].n \in P
                    /\ created[i].m \in P
                    /\ created[i].n # created[i].m
                    /\ <<created[i].n, created[i].m>> \in AdjacentPixels
                    /\ created[i].w = distance(metric, image[created[i].n],
                                               image[created[i].m])]_vars

\* C14 witness: a 2 x 2 graph has been built for the second time on one
\* engine, so the list held edges before the build.
C14_Witness ==
    /\ hist.op = "build_graph"
    /\ builds = 2
    /\ height = 2
    /\ width = 2
    /\ Len(edges) = 8
    /\ \E i \in 1 .. Len(edges) : edges[i].w > 0

\* C15: within a run the phases happen in the order Build, Oversegment,
\* Enforce, Derive, however the caller drives the public operations: a phase
\* the engine accepts (does not abort) starts only when the phase before it
\* has completed, so none is skipped, repeated or reordered.
C15_PhasesInOrder ==
    [][/\ hist'.op = "build_graph" => pc = "new"
       /\ (hist'.op = "oversegment_graph" /\ pc' # "panic") => pc = "built"
       /\ (hist'.op = "enforce_minimum_segment_size" /\ pc' # "panic")
             => pc = "oversegmented"
       /\ (hist'.op = "derive_labels" /\ pc' # "panic")
             => pc = "enforced"]_vars

\* C16: for every image that passes the Build precondition, 1 x 1 images
\* included, the Oversegment pass of a run never fails on an invariant: no
\* index out of range, no merge of a non-root or of one root with itself, no
\* pass over an empty node or edge set.
C16_NoInvariantFailure ==
    1 \in DOMAIN outcomes => outcomes[1].pc = "oversegmented"

\* C18: Oversegment and Enforce, invoked on a graph with zero nodes or zero
\* edges, fail fatally before any merge or other change to the graph.
C18_EmptyGraphRejected ==
    [][(/\ hist'.op \in {"oversegment_graph", "enforce_minimum_segment_size"}
        /\ (NumNodes(nodes) = 0 \/ Len(edges) = 0))
       => /\ pc' = "panic"
          /\ nodes' = nodes
          /\ k' = k
          /\ edges' = edges]_vars

\* C18 witness: oversegment_graph has aborted on the graph of a 1 x 1 image,
\* which has a node and no edge.
C18_Witness ==
    /\ hist.op = "oversegment_graph"
    /\ pc = "panic"
    /\ NumNodes(nodes) = 1
    /\ Len(edges) = 0

\* C21: in every reachable state and for every valid index the engine's
\* find returns the root reached by walking the full label chain from index,
\* whatever the length of the chain, and returns index itself without any
\* change when index is a root.
C21_FindReturnsRoot ==
    \A index \in DOMAIN nodes :
        LET r == Segmentation_find_node_component_at(nodes, index)
        IN  /\ r.st = "ok"
            /\ r.ret = Component(nodes, index)
            /\ IsRoot(nodes, index) => (r.ret = index /\ r.nodes = nodes)

\* The nodes whose label chain resolves to root r.
Members(ns, r) == {i \in DOMAIN ns : Component(ns, i) = r}

RECURSIVE SumOfSizes(_, _)
SumOfSizes(ns, S) ==
    IF S = {} THEN 0
    ELSE LET r == CHOOSE x \in S : TRUE
         IN  ns[r].n + SumOfSizes(ns, S \ {r})

\* C23: in every state of a run after Build the size of every root is the
\* number of nodes that resolve to it, is at least 1, and the sizes of all
\* roots sum to height * width.
C23_SizesCountMembers ==
    builds > 0
        => /\ \A r \in Roots(nodes) :
                 /\ nodes[r].n = Cardinality(Members(nodes, r))
                 /\ nodes[r].n >= 1
           /\ SumOfSizes(nodes, Roots(nodes)) = height * width

\* C23 witness: in the middle of an Oversegment pass one root has absorbed
\* two other pixels and another root is left.
C23_Witness ==
    /\ pc = "overseg"
    /\ \E r \in Roots(nodes) : nodes[r].n = 3
    /\ Cardinality(Roots(nodes)) = 2

\* C24: in every state of a run after Build, not only at its end, the
\* component count is the number of nodes whose label is their own id, it is
\* at least 1, and every node's id is its index in the node array.
C24_CountIsNumberOfRoots ==
    builds > 0
        => /\ k = Cardinality(Roots(nodes))
           /\ k >= 1
           /\ \A i \in DOMAIN nodes : nodes[i].id = i

\* C24 witness: a merge in the middle of an Oversegment pass has just left
\* two components of a four pixel image.
C24_Witness ==
    /\ pc = "overseg"
    /\ hist.op = "oversegment_step"
    /\ hist.ret = 1
    /\ NumNodes(nodes) = 4
    /\ k = 2

\* The weights of the edges whose merges formed the component of root r.
FormingWeights(ns, ms, r) ==
    {x.w : x \in {y \in ms : Component(ns, y.n) = r}}

\* C25: in every state of a run the maximum weight of every root is the
\* largest weight among the edges whose merges formed its component (0 for a
\* single pixel); and right after each merge of an Oversegment pass the
\* absorbing root's maximum is the weight of the edge just merged, the edges
\* being visited in ascending order of weight.
C25_MaxIsLargestMergedWeight ==
    [][/\ \A r \in Roots(nodes') :
             nodes'[r].max_w = Largest({0} \cup FormingWeights(nodes', merged', r))
       /\ (/\ hist'.op = "oversegment_step"
           /\ hist'.ret = 1
           /\ pc' # "panic")
             => nodes'[hist'.a].max_w = hist'.w]_vars

\* C25 witness: a root that already held a positive maximum has absorbed
\* another component over a heavier edge.
C25_Witness ==
    /\ hist.op = "oversegment_step"
    /\ hist.ret = 1
    /\ nodes[hist.a].n >= 3
    /\ nodes[hist.a].max_w = hist.w
    /\ Cardinality(FormingWeights(nodes, merged, hist.a) \ {0}) >= 2

\* The pixels of M reached from the pixels of R along 4-adjacent pixels of M.
RECURSIVE ReachedIn(_, _)
ReachedIn(M, R) ==
    LET more == {q \in M \ R :
                    \E p \in R : <<p, q>> \in AdjacentPixels
                                  \/ <<q, p>> \in AdjacentPixels}
    IN  IF more = {} THEN R ELSE ReachedIn(M, R \cup more)

\* M is a 4-connected region of the image.
FourConnected(M) ==
    M = {} \/ ReachedIn(M, {CHOOSE p \in M : TRUE}) = M

\* C26: in every state of a run every component is a 4-connected region of
\* the image, and two pixels that resolve to the same root resolve to a
\* common root in every later state of the run.
C26_ComponentsConnected ==
    [][/\ (builds' > 0 /\ pc' # "panic")
          => \A r \in Roots(nodes') : FourConnected(Members(nodes', r))
       /\ hist'.op # "build_graph"
          => \A p \in DOMAIN nodes, q \in DOMAIN nodes :
                Component(nodes, p) = Component(nodes, q)
                   => Component(nodes', p) = Component(nodes', q)]_vars

\* C27: the Enforce phase is a single pass that visits every edge once and
\* returns, after which (for some image, c and m) more than one component
\* may remain with one of them smaller than m.  The part stated here: an
\* Enforce call on an oversegmented graph returns.
C27_EnforcePassCompletes ==
    (hist.op = "enforce_minimum_segment_size" /\ Oversegmented)
        => pc # "panic"

\* The driver of a run: a started Oversegment pass goes on to its next edge,
\* and the caller does get to call Derive labels.
FairEngine ==
    /\ SpecEngine
    /\ WF_vars(OversegmentStep)
    /\ SF_vars(DeriveLabels)

\* C28: every run on an input that passes the Build precondition ends with a
\* label buffer: once the graph is built, the run eventually reaches the end
\* of Derive labels with one label per pixel.
C28_RunReachesLabels ==
    (pc = "built")
        ~> (hist.op = "derive_labels" /\ pc # "panic"
            /\ Len(labels) = height * width)

\* C29: Build always produces the graph from scratch: after Build on a
\* height x width image the engine holds exactly height * width nodes, exactly
\* height * (width - 1) + (height - 1) * width edges and a component count of
\* height * width, whatever operations came before on the same engine.
C29_BuildFromScratch ==
    hist.op = "build_graph"
        => /\ NumNodes(nodes) = height * width
           /\ k = height * width
           /\ Len(edges) = height * (width - 1) + (height - 1) * width

-----------------------------------------------------------------------------
(* The merge predicates on their own (specification SpecPred): two        *)
(* distinct roots of any size and maximum, an edge between them, any c.    *)

PredWeights == {0, Scale \div 4, Scale \div 2, Scale}

InitPred ==
    /\ nodes \in [0 .. 1 -> [label : 0 .. 1, n : 1 .. MaxSize, id : 0 .. 1,
                             max_w : PredWeights]]
    /\ \A i \in 0 .. 1 : nodes[i].id = i /\ nodes[i].label = i
    /\ k = 2
    /\ \E w \in PredWeights : edges = <<ImageEdge(0, 1, w)>>
    /\ c \in Cs
    /\ hist = NoOp
    /\ pc = "ready"
    /\ height = 0
    /\ width = 0
    /\ channels = 0
    /\ image = <<>>
    /\ colors = <<>>
    /\ metric = "none"
    /\ edge_index = 0
    /\ labels = <<>>
    /\ builds = 0
    /\ outcomes = <<>>
    /\ merged = {}

Bit(b) == IF b THEN 1 ELSE 0

\* A call of NodeMergingThreshold::should_merge; the caller may hand in the
\* same node twice.
ShouldMerge ==
    /\ pc = "ready"
    /\ \E a \in DOMAIN nodes, b \in DOMAIN nodes :
          /\ LET r == should_merge(c, nodes[a], nodes[b], edges[1])
             IN  /\ pc' = IF r.st = "ok" THEN "ready" ELSE r.st
                 /\ hist' = [NoOp EXCEPT !.op = "should_merge", !.a = a,
                                         !.b = b, !.ret = Bit(r.ret)]
    /\ UNCHANGED <<nodes, k, edges, evars>>

\* A call of MagicThreshold::magic; the caller may hand in the same node
\* twice.
Magic ==
    /\ pc = "ready"
    /\ \E a \in DOMAIN nodes, b \in DOMAIN nodes :
          /\ hist' = [NoOp EXCEPT
                        !.op = "magic", !.a = a, !.b = b,
                        !.ret = Bit(MagicThreshold_magic(c, nodes[a], nodes[b],
                                                         edges[1]))]
    /\ UNCHANGED <<nodes, k, edges, pc, evars>>

NextPred == ShouldMerge \/ Magic

SpecPred == InitPred /\ [][NextPred]_vars

\* w < max_w + c / n, with the division multiplied out.
StrictlyBelow(w, node) == w * node.n < node.max_w * node.n + c

\* C7: should_merge(a, b, edge) is true exactly when edge.w is strictly
\* below both max_w + c / size thresholds, for distinct roots, and the result
\* does not depend on the order of a and b.
C7_ShouldMergeIffBelowBoth ==
    (hist.op \in {"should_merge", "magic"} /\ hist.a # hist.b)
        => LET a == nodes[hist.a]
               b == nodes[hist.b]
               edge == edges[1]
           IN  /\ pc = "ready"
               /\ (hist.ret = 1)
                     <=> (StrictlyBelow(edge.w, a) /\ StrictlyBelow(edge.w, b))
               /\ should_merge(c, b, a, edge).ret = (hist.ret = 1)
               /\ MagicThreshold_magic(c, b, a, edge) = (hist.ret = 1)

\* C7 witness: the edge weight equals the smaller threshold with c > 0 and is
\* below the other one, and should_merge has answered no.
C7_Witness ==
    /\ hist.op = "should_merge"
    /\ hist.ret = 0
    /\ c > 0
    /\ edges[1].w * nodes[hist.a].n
          = nodes[hist.a].max_w * nodes[hist.a].n + c
    /\ StrictlyBelow(edges[1].w, nodes[hist.b])

\* C20: every merge predicate of the repository, called with two components
\* of the same id, asserts or rejects and returns no merge decision.
C20_SameIdRejected ==
    (hist.op \in {"should_merge", "magic"}
         /\ nodes[hist.a].id = nodes[hist.b].id)
        => pc = "panic"

-----------------------------------------------------------------------------
(* The sorts on their own (specification SpecSort).                        *)

OrdInt(x, y) == IF x < y THEN "Less" ELSE IF x > y THEN "Greater" ELSE "Equal"

\* Ordering::then
Then(first, second) == IF first = "Equal" THEN second ELSE first

\* impl Ord for ImageEdge: the weight, then n, then m.
cmp(self, other) ==
    Then(Then(OrdInt(self.w, other.w), OrdInt(self.n, other.n)),
         OrdInt(self.m, other.m))

\* Insertion of x into a list sorted by cmp.
RECURSIVE InsertByCmp(_, _)
InsertByCmp(sorted, x) ==
    IF sorted = <<>> THEN <<x>>
    ELSE IF cmp(sorted[Len(sorted)], x) # "Greater" THEN Append(sorted, x)
    ELSE Append(InsertByCmp(SubSeq(sorted, 1, Len(sorted) - 1), x),
                sorted[Len(sorted)])

RECURSIVE SortByCmpUpTo(_, _)
SortByCmpUpTo(es, count) ==
    IF count = 0 THEN <<>>
    ELSE InsertByCmp(SortByCmpUpTo(es, count - 1), es[count])

\* Edges::sort_by_weight: sort_unstable_by(cmp).  Edges that compare Equal are
\* the same edge, so the sorted list is unique.
sort_by_weight(es) == SortByCmpUpTo(es, Len(es))

\* The edges a caller may add: any two distinct nodes, in either order.
SortNodes == 0 .. 2

EdgeValues ==
    {x \in [n : SortNodes, m : SortNodes, w : Weights] : x.n # x.m}

InitSort ==
    /\ nodes = BuiltNodes(Cardinality(SortNodes))
    /\ k = Cardinality(SortNodes)
    /\ edges = <<>>
    /\ hist = NoOp
    /\ pc = "ready"
    /\ NoEngine

\* ImageGraph::add_edges with one edge.
SortAddEdges ==
    /\ Len(edges) < MaxSortLen
    /\ \E x \in EdgeValues : edges' = edges \o <<x>>
    /\ hist' = [NoOp EXCEPT !.op = "add_edges"]
    /\ UNCHANGED <<nodes, k, pc, evars>>

\* ImageGraph::sort_edges
SortEdges ==
    /\ edges' = sort_by_weight(edges)
    /\ hist' = [NoOp EXCEPT !.op = "sort_edges"]
    /\ UNCHANGED <<nodes, k, pc, evars>>

\* Segmentation::sort_edges
EngineSortEdges ==
    /\ edges' = Segmentation_sort_edges(edges)
    /\ hist' = [NoOp EXCEPT !.op = "Segmentation_sort_edges"]
    /\ UNCHANGED <<nodes, k, pc, evars>>

NextSort == SortAddEdges \/ SortEdges \/ EngineSortEdges

SpecSort == InitSort /\ [][NextSort]_vars

\* The two lists hold the same edges, each as often as the other.
SameEdges(es, fs) ==
    /\ Len(es) = Len(fs)
    /\ \A x \in EdgeValues :
          Cardinality({i \in 1 .. Len(es) : es[i] = x})
              = Cardinality({i \in 1 .. Len(fs) : fs[i] = x})

\* x may stand before y: lighter, or as heavy and ordered by the smaller
\* endpoint and then by the larger endpoint.
MayPrecede(x, y) ==
    \/ x.w < y.w
    \/ /\ x.w = y.w
       /\ \/ Min(x.n, x.m) < Min(y.n, y.m)
          \/ /\ Min(x.n, x.m) = Min(y.n, y.m)
             /\ Max(x.n, x.m) <= Max(y.n, y.m)

\* C8: sort_edges keeps the edges and leaves them in ascending order of
\* weight, edges of equal weight ordered by their smaller endpoint id and then
\* by their larger endpoint id, for every list of edges (n > m included).
C8_SortedWithTieBreak ==
    [][hist'.op \in {"sort_edges", "Segmentation_sort_edges"}
       => /\ SameEdges(edges, edges')
          /\ \A i \in 1 .. Len(edges'), j \in 1 .. Len(edges') :
                i < j => MayPrecede(edges'[i], edges'[j])]_vars

-----------------------------------------------------------------------------
(* The pixel graph as ImageGraph itself constructs it (specification       *)
(* SpecNew): no caller has initialised the nodes.                          *)

\* ImageGraph::new_with_nodes(n), for every n the model explores.
InitNew ==
    /\ \E n \in 0 .. MaxNodes :
          /\ k = n
          /\ nodes = Allocated(n)
          /\ hist = [NoOp EXCEPT !.op = "new_with_nodes", !.a = n]
    /\ edges = <<>>
    /\ pc = "ready"
    /\ NoEngine

\* ImageGraph::reset(n)
Reset ==
    /\ pc = "ready"
    /\ \E n \in 0 .. MaxNodes :
          /\ k' = n
          /\ nodes' = Allocated(n)
          /\ hist' = [NoOp EXCEPT !.op = "reset", !.a = n]
    /\ edges' = <<>>
    /\ UNCHANGED <<pc, evars>>

NextNew == Reset \/ SortAddEdges \/ GraphFindComponentAt \/ GraphMerge

SpecNew == InitNew /\ [][NextNew]_vars

\* C13: new_with_nodes(count) returns a graph of exactly count nodes, node i
\* with id = i, label = i, size 1 and maximum weight 0, with no edges and
\* component count = count.
C13_NewNodesAreSingletons ==
    hist.op = "new_with_nodes"
        => /\ DOMAIN nodes = 0 .. hist.a - 1
           /\ \A i \in DOMAIN nodes :
                 /\ nodes[i].id = i
                 /\ nodes[i].label = i
                 /\ nodes[i].n = 1
                 /\ nodes[i].max_w = 0
           /\ edges = <<>>
           /\ k = hist.a

-----------------------------------------------------------------------------
(* The engine handed any pixel buffer (specification SpecInput): the       *)
(* buffer may be empty and may have a channel count other than 3.          *)

\* Channel counts of the buffers: grey, BGR, BGRA.
ChannelCounts == {1, 3, 4}

\* Segmentation::new, and the buffer the caller is going to hand in.
InitInput ==
    /\ \E h \in 0 .. MaxInputSide, w \in 0 .. MaxInputSide :
          /\ height = h
          /\ width = w
          /\ image \in [Pixels(h, w) -> {Black, White}]
    /\ channels \in ChannelCounts
    /\ metric \in Metrics
    /\ c \in Cs
    /\ nodes = <<>>
    /\ colors = <<>>
    /\ k = 0
    /\ edges = <<>>
    /\ pc = "new"
    /\ hist = NoOp
    /\ edge_index = 0
    /\ labels = <<>>
    /\ builds = 0
    /\ outcomes = <<>>
    /\ merged = {}

SpecInput == InitInput /\ [][NextEngine]_vars

\* The buffer is empty or does not have exactly 3 channels.
InvalidInput == height * width = 0 \/ channels # 3

\* C17: Build fails fatally and leaves no partial or usable graph state
\* whenever the buffer is empty or does not have exactly 3 channels.
C17_BuildRejectsInvalidInput ==
    [][(hist'.op = "build_graph" /\ InvalidInput)
       => /\ pc' = "panic"
          /\ nodes' = nodes
          /\ k' = k
          /\ edges' = edges]_vars

-----------------------------------------------------------------------------
(* The metrics on their own (specification SpecMetric).  The value a       *)
(* metric returns is a strictly increasing function of the integer it      *)
(* computes from the channel differences, and it is 1.0 when that integer  *)
(* equals the metric's normaliser; zero, equality and the maximum are      *)
(* decided on these integers, free of rounding.                            *)

\* The integer a metric computes before it converts to f32.
Unnormalised(mt, n, m) ==
    CASE mt = "euclidean" -> SquaredDifference(n, m)
      [] mt = "squared_euclidean" -> SquaredDifference(n, m)
      [] mt = "manhattan" ->
            Abs(n[3] - m[3]) + Abs(n[2] - m[2]) + Abs(n[1] - m[1])

\* The value of that integer at which the metric returns 1.0:
\* sqrt(x) / sqrt(255^2 * 3), x / (255^2 * 3), x / (255 * 3).
Normaliser(mt) ==
    CASE mt = "euclidean" -> SquaredNorm
      [] mt = "squared_euclidean" -> SquaredNorm
      [] mt = "manhattan" -> ChannelMax * 3

AllMetrics == {"euclidean", "squared_euclidean", "manhattan"}

\* Channel values of the colours handed to the metrics.
ChannelValues == {0, 1, ChannelMax - 1, ChannelMax}

InitMetric ==
    /\ image \in [0 .. 1 -> ChannelValues \X ChannelValues \X ChannelValues]
    /\ metric \in AllMetrics
    /\ height = 1
    /\ width = 2
    /\ channels = 3
    /\ colors = <<>>
    /\ c = 0
    /\ nodes = <<>>
    /\ k = 0
    /\ edges = <<>>
    /\ pc = "ready"
    /\ hist = NoOp
    /\ edge_index = 0
    /\ labels = <<>>
    /\ builds = 0
    /\ outcomes = <<>>
    /\ merged = {}

\* Distance::distance on the two colours, in both orders.
Distance ==
    /\ hist.op = "none"
    /\ hist' = [NoOp EXCEPT !.op = "distance",
                            !.a = Unnormalised(metric, image[0], image[1]),
                            !.b = Unnormalised(metric, image[1], image[0]),
                            !.w = distance(metric, image[0], image[1]),
                            !.ret = distance(metric, image[1], image[0])]
    /\ UNCHANGED <<nodes, k, edges, pc, evars>>

NextMetric == Distance

SpecMetric == InitMetric /\ [][NextMetric]_vars

\* The two colours are opposite corners of the channel cube.
OppositeCorners(n, m) ==
    \A ch \in 1 .. 3 : {n[ch], m[ch]} = {0, ChannelMax}

\* C19: for each of the three metrics and all colours a, b:
\* distance(a, b) = distance(b, a); distance(a, b) = 0 exactly when a = b;
\* distance(a, b) is at most 1 and is 1 exactly when a and b are opposite
\* corners of the channel cube.
C19_MetricLaws ==
    hist.op = "distance"
        => /\ hist.a = hist.b
           /\ hist.w = hist.ret
           /\ (hist.a = 0) <=> (image[0] = image[1])
           /\ hist.a <= Normaliser(metric)
           /\ (hist.a = Normaliser(metric))
                 <=> OppositeCorners(image[0], image[1])
           /\ (hist.w = Scale) <=> OppositeCorners(image[0], image[1])

\* C19 witness: a metric has been applied to two different colours that are
\* no opposite corners, one channel apart by 1.
C19_Witness ==
    /\ hist.op = "distance"
    /\ image[0] # image[1]
    /\ Abs(image[0][1] - image[1][1]) = 1
    /\ Abs(image[0][2] - image[1][2]) = ChannelMax
    /\ hist.a < Normaliser(metric)

-----------------------------------------------------------------------------
(* An engine instance that is used again (specification SpecReuse): the    *)
(* graph of a black 2 x 2 image has been built on it, and the caller now   *)
(* holds another image.                                                    *)

\* The side of the square image built before.
PreviousSide == 2

PreviousImage == [i \in Pixels(PreviousSide, PreviousSide) |-> Black]

\* Segmentation::new followed by build_graph(PreviousImage).
InitReuse ==
    /\ \E h \in 1 .. MaxPixels, w \in 1 .. MaxPixels :
          /\ h * w <= MaxPixels
          /\ height = h
          /\ width = w
          /\ image \in [Pixels(h, w) -> {Black, White}]
    /\ channels = 3
    /\ metric \in Metrics
    /\ c \in Cs
    /\ nodes = BuiltNodes(PreviousSide * PreviousSide)
    /\ colors = PreviousImage
    /\ k = PreviousSide * PreviousSide
    /\ edges = BuildEdges(PreviousSide, PreviousSide, PreviousImage, metric,
                          PreviousSide * PreviousSide)
    /\ pc = "new"
    /\ hist = NoOp
    /\ edge_index = 0
    /\ labels = <<>>
    /\ builds = 0
    /\ outcomes = <<>>
    /\ merged = {}

SpecReuse == InitReuse /\ [][NextEngine]_vars

-----------------------------------------------------------------------------
(* The comparison operators of ImageEdge (specification SpecCmp): two edges *)
(* are held in the list and compared with each operator in turn.            *)

\* impl PartialEq for ImageEdge
eq(self, other) == self.w = other.w /\ self.n = other.n /\ self.m = other.m

ne(self, other) == self.w # other.w \/ self.n # other.n \/ self.m # other.m

\* impl PartialOrd for ImageEdge: the overridden operators.
lt(self, other) == self.w < other.w \/ self.n < other.n \/ self.m < other.m

le(self, other) == self.w <= other.w /\ self.n <= other.n /\ self.m <= other.m

gt(self, other) == self.w > other.w \/ self.n > other.n \/ self.m > other.m

ge(self, other) == self.w >= other.w /\ self.n >= other.n /\ self.m >= other.m

\* ImageEdge::new: any two node indices and any weight.
NewEdges == [n : SortNodes, m : SortNodes, w : Weights]

InitCmp ==
    /\ nodes = BuiltNodes(Cardinality(SortNodes))
    /\ k = Cardinality(SortNodes)
    /\ \E a \in NewEdges, b \in NewEdges : edges = <<a, b>>
    /\ hist = NoOp
    /\ pc = "ready"
    /\ NoEngine

\* One comparison of the two edges; its result is recorded in hist.ret.
CompareEq ==
    /\ hist' = [NoOp EXCEPT !.op = "eq",
                            !.ret = Bit(eq(edges[1], edges[2]))]
    /\ UNCHANGED <<nodes, k, edges, pc, evars>>

CompareNe ==
    /\ hist' = [NoOp EXCEPT !.op = "ne",
                            !.ret = Bit(ne(edges[1], edges[2]))]
    /\ UNCHANGED <<nodes, k, edges, pc, evars>>

CompareLt ==
    /\ hist' = [NoOp EXCEPT !.op = "lt",
                            !.ret = Bit(lt(edges[1], edges[2]))]
    /\ UNCHANGED <<nodes, k, edges, pc, evars>>

CompareLe ==
    /\ hist' = [NoOp EXCEPT !.op = "le",
                            !.ret = Bit(le(edges[1], edges[2]))]
    /\ UNCHANGED <<nodes, k, edges, pc, evars>>

CompareGt ==
    /\ hist' = [NoOp EXCEPT !.op = "gt",
                            !.ret = Bit(gt(edges[1], edges[2]))]
    /\ UNCHANGED <<nodes, k, edges, pc, evars>>

CompareGe ==
    /\ hist' = [NoOp EXCEPT !.op = "ge",
                            !.ret = Bit(ge(edges[1], edges[2]))]
    /\ UNCHANGED <<nodes, k, edges, pc, evars>>

NextCmp ==
    \/ CompareEq
    \/ CompareNe
    \/ CompareLt
    \/ CompareLe
    \/ CompareGt
    \/ CompareGe

SpecCmp == InitCmp /\ [][NextCmp]_vars

\* C30: the comparison operators of ImageEdge agree with its total order cmp:
\* a < b iff cmp(a, b) is Less, a <= b iff it is not Greater, a > b iff it
\* is Greater, a >= b iff it is not Less, and a == b iff it is Equal.
C30_OperatorsAgreeWithCmp ==
    LET o == cmp(edges[1], edges[2])
        holds == hist.ret = 1
    IN  /\ hist.op = "lt" => (holds <=> o = "Less")
        /\ hist.op = "le" => (holds <=> o # "Greater")
        /\ hist.op = "gt" => (holds <=> o = "Greater")
        /\ hist.op = "ge" => (holds <=> o # "Less")
        /\ hist.op = "eq" => (holds <=> o = "Equal")

====
